---- MODULE Spec2Model ----
(***************************************************************************)
(* cargo-set: the manifest graph loader (load_manifest) and the version    *)
(* propagation engine (update_version) of crates/cargo-set-lib, over the   *)
(* two FileSystem implementations (MockFileSystem, RealFileSystem).        *)
(*                                                                         *)
(* Option<T> is a sequence of length 0 (None) or 1 (Some).  A PathBuf is   *)
(* the sequence of its components, as std::path compares, orders and       *)
(* hashes paths.  A BTreeMap is a function on its key set.                 *)
(*                                                                         *)
(* The bytes of a resource are abstracted to what Manifest::from_slice     *)
(* makes of them, plus whether they are hand-written or the output of      *)
(* toml::to_string_pretty.  Declared members are single relative           *)
(* components ("a", "b", "."); absolute members and a serializer error     *)
(* are outside the model.  RealFileSystem is std::fs: "." resolves away,   *)
(* a write creates a missing file, and fails on a file it cannot open.     *)
(***************************************************************************)
EXTENDS Integers, Sequences, FiniteSets

VARIABLES
  fsKind,    \* which FileSystem the service was constructed with
  files,     \* storage: resource key -> bytes
  readonly,  \* RealFileSystem only: keys std::fs::write cannot open
  graph,     \* Option<CargoManifest> held by the caller
  lastOp,    \* "none" | "load" | "new" | "update"
  args,      \* arguments of the last operation
  result,    \* anyhow::Result of the last operation
  reads,     \* fs.read calls of the last operation, in order
  writes,    \* fs.write calls of the last operation, in order
  pre,       \* graph and storage as they were when the last operation began
  ops        \* operations performed so far

vars == <<fsKind, files, readonly, graph, lastOp, args, result, reads, writes, pre, ops>>

\* ---------------------------------------------------------------- bounds

MaxOps == 2

MaxMembers == 2

\* ---------------------------------------------------------------- Option

None == <<>>

Some(x) == <<x>>

IsSome(o) == Len(o) = 1

Unwrap(o) == o[1]

\* ---------------------------------------------------------------- paths

\* Byte order of the path components in use; Component::CurDir sorts before
\* every Component::Normal.
CompRank(c) ==
  CASE c = "." -> 0
    [] c = "Cargo.toml" -> 1
    [] c = "a" -> 2
    [] c = "b" -> 3
    [] c = "ws" -> 4
    [] c = "x" -> 5

\* Path::components: "." is dropped everywhere but at the beginning.
Components(p) ==
  LET Keep(i) == i = 1 \/ p[i] # "."
      RECURSIVE Build(_)
      Build(i) == IF i > Len(p) THEN <<>>
                  ELSE IF Keep(i) THEN <<p[i]>> \o Build(i + 1) ELSE Build(i + 1)
  IN Build(1)

\* impl Ord for Path: lexicographic over the components.
RECURSIVE PathLess(_, _)
PathLess(p, q) ==
  IF p = <<>> THEN q # <<>>
  ELSE IF q = <<>> THEN FALSE
  ELSE IF p[1] = q[1] THEN PathLess(Tail(p), Tail(q))
  ELSE CompRank(p[1]) < CompRank(q[1])

\* root_path.parent().unwrap()
Parent(p) == SubSeq(p, 1, Len(p) - 1)

\* PathBuf::push of one relative component
Push(buf, c) == Components(Append(buf, c))

\* Variant of MemberPath: joins against the root file itself.
MemberPathNoParent(root_path, member) == Push(Push(root_path, member), "Cargo.toml")

\* member_path of load_children: parent of the root path, the declared member,
\* the conventional file name.
MemberPath(root_path, member) == Push(Push(Parent(root_path), member), "Cargo.toml")

\* BTreeMap iteration order: the keys in ascending order.
RECURSIVE SortedKeys(_)
SortedKeys(S) ==
  IF S = {} THEN <<>>
  ELSE LET least == CHOOSE k \in S : \A o \in S \ {k} : PathLess(k, o)
       IN <<least>> \o SortedKeys(S \ {least})

\* BTreeMap::insert
MapInsert(f, k, v) == [x \in (DOMAIN f) \cup {k} |-> IF x = k THEN v ELSE f[x]]

\* ---------------------------------------------------------------- manifests

Simple(v) == [kind |-> "Simple", version |-> Some(v)]

Inherited == [kind |-> "Inherited", version |-> None]

Detailed(ov) == [kind |-> "Detailed", version |-> ov]

NoDeps == [n \in {} |-> Inherited]

Package(name, version) == [name |-> name, version |-> version]

Workspace(members, deps) == [members |-> members, dependencies |-> deps]

Manifest(pkg, ws, deps) == [package |-> pkg, workspace |-> ws, dependencies |-> deps]

EmptyManifest == Manifest(None, None, NoDeps)

\* ---------------------------------------------------------------- bytes

\* The bytes of a resource: "fmt" tells hand-written text from the pretty
\* printer's output, "ok" whether the text is a manifest, "doc" what it says.
SourceText(m) == [fmt |-> "source", ok |-> TRUE, doc |-> m]

Garbage == [fmt |-> "source", ok |-> FALSE, doc |-> EmptyManifest]

\* toml::to_string_pretty(&manifest)?.as_bytes().to_vec()
ToStringPretty(m) == [fmt |-> "pretty", ok |-> TRUE, doc |-> m]

\* Manifest::from_slice(&content)
FromSlice(bytes) == [ok |-> bytes.ok, manifest |-> bytes.doc]

\* ---------------------------------------------------------------- storage

\* The resource a path names: the key of MockFileSystem's HashMap<PathBuf, _>,
\* or the file the operating system resolves the path to.
StorageKey(kind, p) ==
  IF kind = "real" THEN SelectSeq(p, LAMBDA c : c # ".") ELSE p

IsPrefix(d, k) == Len(d) < Len(k) /\ SubSeq(k, 1, Len(d)) = d

\* A directory exists when it is the working directory or holds a file.
DirExists(fl, d) == d = <<>> \/ \E k \in DOMAIN fl : IsPrefix(d, k)

\* FileSystem::read
FsRead(kind, fl, p) ==
  LET k == StorageKey(kind, p)
  IN IF k \in DOMAIN fl
     THEN [ok |-> TRUE, err |-> "", bytes |-> fl[k]]
     ELSE [ok |-> FALSE, err |-> "NotFound", bytes |-> Garbage]

MockWrite(fl, k, bytes) ==
  IF k \in DOMAIN fl
  THEN [ok |-> TRUE, err |-> "", files |-> [fl EXCEPT ![k] = bytes]]
  ELSE [ok |-> FALSE, err |-> "NotFound", files |-> fl]

RealWrite(fl, ro, k, bytes) ==
  IF k \in ro THEN [ok |-> FALSE, err |-> "PermissionDenied", files |-> fl]
  ELSE IF k \notin DOMAIN fl /\ ~DirExists(fl, Parent(k))
  THEN [ok |-> FALSE, err |-> "NotFound", files |-> fl]
  ELSE [ok |-> TRUE, err |-> "", files |-> MapInsert(fl, k, bytes)]

\* FileSystem::write
FsWrite(kind, fl, ro, p, bytes) ==
  LET k == StorageKey(kind, p)
  IN IF kind = "real" THEN RealWrite(fl, ro, k, bytes) ELSE MockWrite(fl, k, bytes)

\* ---------------------------------------------------------------- loader

\* CargoManifest::new
NewManifest(root_path, root_manifest) ==
  [root_path |-> root_path, root_manifest |-> root_manifest, members |-> None]

\* load_cargo: read, then parse; "at" is the path whose read or parse failed.
LoadCargo(kind, fl, path) ==
  LET r == FsRead(kind, fl, path)
      m == FromSlice(r.bytes)
  IN IF ~r.ok THEN [ok |-> FALSE, err |-> "IoError", manifest |-> EmptyManifest]
     ELSE IF ~m.ok THEN [ok |-> FALSE, err |-> "ParseError", manifest |-> EmptyManifest]
     ELSE [ok |-> TRUE, err |-> "", manifest |-> m.manifest]

\* Variant of LoadAborts: the loop goes on after an error.
IgnoresLoadError(r) == FALSE

\* The ? on load_cargo(&member_path): an error returns from load_children at once.
LoadAborts(r) == ~r.ok

\* The for loop of load_children from the i-th declared member on; acc carries
\* the members map built so far and the reads issued so far.
RECURSIVE LoadMembers(_, _, _, _, _, _)
LoadMembers(kind, fl, root_path, ms, i, acc) ==
  IF i > Len(ms) THEN acc
  ELSE LET member_path == MemberPath(root_path, ms[i])
           r == LoadCargo(kind, fl, member_path)
           seen == Append(acc.reads, member_path)
       IN IF LoadAborts(r)
          THEN [acc EXCEPT !.ok = FALSE, !.err = r.err, !.at = member_path, !.reads = seen]
          ELSE LoadMembers(kind, fl, root_path, ms, i + 1,
                 [acc EXCEPT !.members = MapInsert(@, member_path, r.manifest),
                             !.reads = seen])

\* Variant of MembersField: the map is stored even when empty.
KeepEmptyMembers(loaded) == Some(loaded)

\* if members.len() > 0 { s.members = Some(members) }
MembersField(loaded) == IF Cardinality(DOMAIN loaded) > 0 THEN Some(loaded) ELSE None

\* load_children
LoadChildren(kind, fl, s, readsSoFar) ==
  LET start == [ok |-> TRUE, err |-> "", at |-> <<>>, members |-> NoDeps,
                reads |-> readsSoFar]
  IN IF IsSome(s.root_manifest.workspace)
     THEN LET r == LoadMembers(kind, fl, s.root_path,
                               Unwrap(s.root_manifest.workspace).members, 1, start)
          IN [ok |-> r.ok, err |-> r.err, at |-> r.at, reads |-> r.reads,
              s |-> IF r.ok THEN [s EXCEPT !.members = MembersField(r.members)] ELSE s]
     ELSE [ok |-> TRUE, err |-> "", at |-> <<>>, reads |-> readsSoFar, s |-> s]

\* load_manifest
LoadManifestResult(kind, fl, path) ==
  LET root == LoadCargo(kind, fl, path)
  IN IF ~root.ok
     THEN [ok |-> FALSE, err |-> root.err, at |-> path, reads |-> <<path>>,
           s |-> NewManifest(path, EmptyManifest)]
     ELSE LoadChildren(kind, fl, NewManifest(path, root.manifest), <<path>>)

\* ---------------------------------------------------------------- engine

\* The match of update_dependencies on one entry.
UpdateDependency(dep, version) ==
  CASE dep.kind = "Simple" -> [dep EXCEPT !.version = Some(version)]
    [] dep.kind = "Inherited" -> dep
    [] dep.kind = "Detailed" -> [dep EXCEPT !.version = Some(version)]

\* update_dependencies: every entry whose key equals the package.
UpdateDependencies(dependencies, package, version) ==
  [name \in DOMAIN dependencies |->
     IF name = package THEN UpdateDependency(dependencies[name], version)
     ELSE dependencies[name]]

\* p.version.set(version)
SetVersion(manifest, version) ==
  [manifest EXCEPT !.package = Some([Unwrap(@) EXCEPT !.version = version])]

\* Variant of UpdateOwn: the package name is not compared.
UpdateOwnAnyName(manifest, package, version) ==
  IF IsSome(manifest.package)
  THEN SetVersion(manifest, version)
  ELSE [manifest EXCEPT !.dependencies = UpdateDependencies(@, package, version)]

\* if let Some(pkg) = &manifest.package { if pkg.name == package { set } }
\* else { update_dependencies(&mut manifest.dependencies, ..) }
UpdateOwn(manifest, package, version) ==
  IF IsSome(manifest.package)
  THEN IF Unwrap(manifest.package).name = package
       THEN SetVersion(manifest, version) ELSE manifest
  ELSE [manifest EXCEPT !.dependencies = UpdateDependencies(@, package, version)]

\* Variant of UpdateWorkspace: the membership-level dependencies are left alone.
SkipWorkspace(manifest, package, version) == manifest

\* if let Some(workspace) = root_manifest.workspace.as_mut() { update_dependencies }
UpdateWorkspace(manifest, package, version) ==
  IF IsSome(manifest.workspace)
  THEN [manifest EXCEPT !.workspace =
          Some([Unwrap(@) EXCEPT !.dependencies = UpdateDependencies(@, package, version)])]
  ELSE manifest

\* Variant of MemberIsWritten: every member is written.
WritesEveryMember(manifest) == TRUE

\* The member loop writes a member in its no-package branch only.
MemberIsWritten(manifest) == ~IsSome(manifest.package)

\* Variant of AbortsOn: a failed write is ignored.
ContinueAfterFailure(w) == FALSE

\* The ? on fs.write: an error returns from update_version at once.
AbortsOn(w) == ~w.ok

\* The member loop of update_version from the i-th key on; acc carries the
\* members map, the storage and the writes issued so far.
RECURSIVE UpdateMembers(_, _, _, _, _, _, _)
UpdateMembers(kind, ro, keys, i, package, version, acc) ==
  IF i > Len(keys) THEN acc
  ELSE LET path == keys[i]
           manifest == UpdateOwn(acc.members[path], package, version)
           members == [acc.members EXCEPT ![path] = manifest]
       IN IF ~MemberIsWritten(manifest)
          THEN UpdateMembers(kind, ro, keys, i + 1, package, version,
                             [acc EXCEPT !.members = members])
          ELSE LET bytes == ToStringPretty(manifest)
                   w == FsWrite(kind, acc.files, ro, path, bytes)
                   log == Append(acc.writes, [path |-> path, bytes |-> bytes, ok |-> w.ok])
                   next == [acc EXCEPT !.members = members, !.files = w.files,
                                       !.writes = log]
               IN IF AbortsOn(w)
                  THEN [next EXCEPT !.ok = FALSE, !.err = w.err, !.at = path]
                  ELSE UpdateMembers(kind, ro, keys, i + 1, package, version, next)

\* update_version
UpdateVersionResult(kind, fl, ro, s, package, version) ==
  LET root == UpdateWorkspace(UpdateOwn(s.root_manifest, package, version),
                              package, version)
      bytes == ToStringPretty(root)
      w == FsWrite(kind, fl, ro, s.root_path, bytes)
      log == <<[path |-> s.root_path, bytes |-> bytes, ok |-> w.ok]>>
      s1 == [s EXCEPT !.root_manifest = root]
  IN IF AbortsOn(w)
     THEN [ok |-> FALSE, err |-> w.err, at |-> s.root_path, s |-> s1,
           files |-> w.files, writes |-> log]
     ELSE IF IsSome(s.members)
     THEN LET r == UpdateMembers(kind, ro, SortedKeys(DOMAIN Unwrap(s.members)), 1,
                                 package, version,
                                 [ok |-> TRUE, err |-> "", at |-> <<>>,
                                  members |-> Unwrap(s.members), files |-> w.files,
                                  writes |-> log])
          IN [ok |-> r.ok, err |-> r.err, at |-> r.at,
              s |-> [s1 EXCEPT !.members = Some(r.members)],
              files |-> r.files, writes |-> r.writes]
     ELSE [ok |-> TRUE, err |-> "", at |-> <<>>, s |-> s1, files |-> w.files,
           writes |-> log]

\* ---------------------------------------------------------------- inputs

Targets == {"child", "other"}

NewVersions == {"0.3.0"}

ChildSimple == [n \in {"child"} |-> Simple("0.2.0")]

ChildDetailedUnpinned == [n \in {"child"} |-> Detailed(None)]

ChildDetailed == [n \in {"child"} |-> Detailed(Some("0.2.0"))]

ChildInherited ==
  [n \in {"child", "other"} |-> IF n = "child" THEN Inherited ELSE Simple("0.2.0")]

BothDetailed ==
  [n \in {"child", "other"} |->
     IF n = "child" THEN Detailed(None) ELSE Detailed(Some("0.2.0"))]

Packages == {None, Some(Package("child", "0.1.0")), Some(Package("other", "0.1.0"))}

\* Every member list of at most n entries.
MemberLists(n) == UNION {[1..k -> {"a", "b", "."}] : k \in 0..n}

\* The manifests of the version-propagation scenarios.
UpdateRoots ==
  {Manifest(pkg, ws, deps) :
     pkg \in Packages,
     deps \in {NoDeps, ChildSimple, ChildInherited},
     ws \in {None} \cup
            {Some(Workspace(l, d)) :
               l \in {<<"a", "b">>, <<".", "a">>},
               d \in {NoDeps, ChildSimple, ChildInherited, ChildDetailed, BothDetailed}}}

UpdateMembersA ==
  {SourceText(Manifest(pkg, None, deps)) :
     pkg \in Packages, deps \in {NoDeps, ChildSimple, ChildDetailedUnpinned}}

UpdateMembersB == {SourceText(Manifest(Some(Package("other", "0.1.0")), None, ChildSimple))}

\* The manifests of the loader scenarios.
LoadRoots ==
  {Garbage} \cup
  {SourceText(Manifest(None, ws, NoDeps)) :
     ws \in {None} \cup {Some(Workspace(l, NoDeps)) : l \in MemberLists(MaxMembers)}}

Nested == Manifest(None, Some(Workspace(<<"b">>, NoDeps)), NoDeps)

LoadMembersA ==
  {Garbage, SourceText(Manifest(Some(Package("child", "0.1.0")), None, NoDeps)),
   SourceText(Nested)}

LoadMembersB == {Garbage, SourceText(Manifest(None, None, ChildSimple))}

\* The manifests of the failing-write scenarios.
WriteRoots ==
  {Manifest(pkg, Some(Workspace(l, ChildDetailed)), NoDeps) :
     pkg \in {None, Some(Package("other", "0.1.0"))},
     l \in {<<"a", "b">>, <<"b">>}}

WriteMembersA ==
  {SourceText(Manifest(pkg, None, ChildSimple)) :
     pkg \in {None, Some(Package("child", "0.1.0"))}}

WriteMembersB == {SourceText(Manifest(None, None, ChildSimple))}

\* The storage holding the given resources (rootFile, fileA, fileB are options).
Storage(dir, rootFile, fileA, fileB) ==
  LET root == dir \o <<"Cargo.toml">>
      a == dir \o <<"a", "Cargo.toml">>
      b == dir \o <<"b", "Cargo.toml">>
      present == (IF IsSome(rootFile) THEN {root} ELSE {})
                 \cup (IF IsSome(fileA) THEN {a} ELSE {})
                 \cup (IF IsSome(fileB) THEN {b} ELSE {})
  IN [k \in present |->
        IF k = root THEN Unwrap(rootFile) ELSE IF k = a THEN Unwrap(fileA)
        ELSE Unwrap(fileB)]

Optional(S) == {None} \cup {Some(x) : x \in S}

Placements == {[kind |-> "mock", dir |-> <<"ws">>], [kind |-> "real", dir |-> <<>>]}

\* ---------------------------------------------------------------- state machine

Start(kind, fl, ro) ==
  /\ fsKind = kind
  /\ files = fl
  /\ readonly = ro
  /\ graph = None
  /\ lastOp = "none"
  /\ args = [path |-> <<>>, package |-> "", version |-> ""]
  /\ result = [ok |-> TRUE, err |-> "", at |-> <<>>]
  /\ reads = <<>>
  /\ writes = <<>>
  /\ pre = [graph |-> None, files |-> fl]
  /\ ops = 0

InitUpdate ==
  \E pl \in Placements, r \in UpdateRoots, a \in UpdateMembersA, b \in UpdateMembersB :
    Start(pl.kind, Storage(pl.dir, Some(SourceText(r)), Some(a), Some(b)), {})

InitLoad ==
  \E pl \in Placements \cup {[kind |-> "mock", dir |-> <<>>]},
     r \in Optional(LoadRoots), a \in Optional(LoadMembersA), b \in Optional(LoadMembersB) :
    Start(pl.kind, Storage(pl.dir, r, a, b), {})

InitWrite ==
  \E r \in WriteRoots, a \in WriteMembersA, b \in WriteMembersB :
    LET fl == Storage(<<>>, Some(SourceText(r)), Some(a), Some(b))
    IN \E ro \in (SUBSET DOMAIN fl) \ {{}} : Start("real", fl, ro)

Init == InitUpdate \/ InitLoad \/ InitWrite

\* The paths a caller hands to load_manifest (--path).
RootPaths == {<<"Cargo.toml">>, <<"ws", "Cargo.toml">>}

\* service.load_manifest(&path)
LoadManifest(path) ==
  /\ ops < MaxOps
  /\ LET r == LoadManifestResult(fsKind, files, path)
     IN /\ graph' = IF r.ok THEN Some(r.s) ELSE None
        /\ result' = [ok |-> r.ok, err |-> r.err, at |-> r.at]
        /\ reads' = r.reads
  /\ lastOp' = "load"
  /\ args' = [path |-> path, package |-> "", version |-> ""]
  /\ writes' = <<>>
  /\ pre' = [graph |-> graph, files |-> files]
  /\ ops' = ops + 1
  /\ UNCHANGED <<fsKind, files, readonly>>

\* CargoManifest::new(path, manifest) by a caller, for a resource not in storage
NewGraph(path, manifest) ==
  /\ ops < MaxOps
  /\ graph' = Some(NewManifest(path, manifest))
  /\ result' = [ok |-> TRUE, err |-> "", at |-> <<>>]
  /\ lastOp' = "new"
  /\ args' = [path |-> path, package |-> "", version |-> ""]
  /\ reads' = <<>>
  /\ writes' = <<>>
  /\ pre' = [graph |-> graph, files |-> files]
  /\ ops' = ops + 1
  /\ UNCHANGED <<fsKind, files, readonly>>

\* service.update_version(&mut manifest, package, version)
UpdateVersion(package, version) ==
  /\ ops < MaxOps
  /\ IsSome(graph)
  /\ LET r == UpdateVersionResult(fsKind, files, readonly, Unwrap(graph), package, version)
     IN /\ graph' = Some(r.s)
        /\ files' = r.files
        /\ result' = [ok |-> r.ok, err |-> r.err, at |-> r.at]
        /\ writes' = r.writes
  /\ lastOp' = "update"
  /\ args' = [path |-> <<>>, package |-> package, version |-> version]
  /\ reads' = <<>>
  /\ pre' = [graph |-> graph, files |-> files]
  /\ ops' = ops + 1
  /\ UNCHANGED <<fsKind, readonly>>

Next ==
  \/ \E path \in RootPaths : LoadManifest(path)
  \/ NewGraph(<<"x">>, Manifest(Some(Package("child", "0.1.0")), None, ChildSimple))
  \/ \E package \in Targets, version \in NewVersions : UpdateVersion(package, version)

Spec == Init /\ [][Next]_vars

\* ---------------------------------------------------------------- vocabulary of the properties

Updated == lastOp = "update"

UpdatedOk == Updated /\ result.ok

Loaded == lastOp = "load"

LoadedOk == Loaded /\ result.ok

\* The graph before and after the last operation, its target and version.
G0 == Unwrap(pre.graph)

G1 == Unwrap(graph)

target == args.package

newVersion == args.version

MemberKeys(g) == IF IsSome(g.members) THEN DOMAIN Unwrap(g.members) ELSE {}

Member(g, k) == Unwrap(g.members)[k]

\* The manifests of a graph: the root's and every member's.
Resources(g) == {g.root_manifest} \cup {Member(g, k) : k \in MemberKeys(g)}

SameResource(p, q) == StorageKey(fsKind, p) = StorageKey(fsKind, q)

WritesTo(p) == {i \in 1..Len(writes) : SameResource(writes[i].path, p)}

\* What reading and parsing resource p of storage fl gives.
ReadBack(fl, p) == fl[StorageKey(fsKind, p)].doc

HasPackageNamed(m, name) == IsSome(m.package) /\ Unwrap(m.package).name = name

Mentions(m, name) ==
  \/ HasPackageNamed(m, name)
  \/ name \in DOMAIN m.dependencies
  \/ IsSome(m.workspace) /\ name \in DOMAIN Unwrap(m.workspace).dependencies

Unrelated(g, name) == \A m \in Resources(g) : ~Mentions(m, name)

\* The identifier of a declared member: the root's containing directory, the
\* member, the conventional file name.
MemberId(root_path, member) ==
  Components(SubSeq(root_path, 1, Len(root_path) - 1) \o <<member, "Cargo.toml">>)

\* ---------------------------------------------------------------- C1

\* C1: in every successful update_version the root resource is written exactly
\* once, with its post-mutation content; a member is written if and only if it
\* owns no package descriptor; a member whose package name equals the target
\* has the new version in memory and reads back from storage as before the call.
C1_SelectivePersistence ==
  UpdatedOk =>
    /\ Cardinality(WritesTo(G1.root_path)) = 1
    /\ \A i \in WritesTo(G1.root_path) : writes[i].bytes = ToStringPretty(G1.root_manifest)
    /\ \A k \in MemberKeys(G1) :
         /\ (WritesTo(k) # {}) <=> ~IsSome(Member(G1, k).package)
         /\ HasPackageNamed(Member(G1, k), target) =>
              /\ Unwrap(Member(G1, k).package).version = newVersion
              /\ ReadBack(files, k) = ReadBack(pre.files, k)

\* ---------------------------------------------------------------- C2

\* C2: after update_version no resource of the graph, root or member, with or
\* without a package descriptor, holds a Simple or Detailed dependency on the
\* target whose version is not the new version.
C2_DependenciesEverywhere ==
  UpdatedOk =>
    \A m \in Resources(G1) :
      \A name \in DOMAIN m.dependencies :
        (name = target /\ m.dependencies[name].kind # "Inherited")
          => m.dependencies[name].version = Some(newVersion)

\* ---------------------------------------------------------------- C3

\* C3 as stated: on a graph that mentions the target nowhere, update_version
\* changes nothing in memory and issues the root's write and no other.
C3_OnlyRootWritten ==
  (UpdatedOk /\ Unrelated(G0, target)) =>
    /\ graph = pre.graph
    /\ Len(writes) = 1
    /\ writes[1].path = G0.root_path

\* C3 amended: on a graph that mentions the target nowhere, update_version
\* changes nothing in memory, and its writes are the root's re-write followed
\* by one re-write of each member owning no package descriptor, each of the
\* unchanged content re-serialized.
C3_UnrelatedNoOp ==
  (UpdatedOk /\ Unrelated(G0, target)) =>
    /\ graph = pre.graph
    /\ Len(writes) = 1 + Cardinality({k \in MemberKeys(G0) : ~IsSome(Member(G0, k).package)})
    /\ writes[1].path = G0.root_path
    /\ writes[1].bytes = ToStringPretty(G0.root_manifest)
    /\ \A i \in 2..Len(writes) :
         /\ writes[i].path \in MemberKeys(G0)
         /\ ~IsSome(Member(G0, writes[i].path).package)
         /\ writes[i].bytes = ToStringPretty(Member(G0, writes[i].path))
    /\ \A i, j \in 2..Len(writes) : writes[i].path = writes[j].path => i = j

C3_Witness ==
  /\ UpdatedOk
  /\ Unrelated(G0, target)
  /\ Len(writes) >= 2
  /\ \E k \in MemberKeys(G0) : IsSome(Member(G0, k).package)

\* ---------------------------------------------------------------- C4

\* C4: after update_version every member owning a package descriptor named as
\* the target has the new version in memory, and every resource whose package
\* descriptor is named otherwise keeps its package version.
C4_DirectVersionUpdate ==
  UpdatedOk =>
    /\ \A k \in MemberKeys(G1) :
         HasPackageNamed(Member(G0, k), target)
           => Member(G1, k).package = Some(Package(target, newVersion))
    /\ \A k \in MemberKeys(G1) :
         (IsSome(Member(G0, k).package) /\ ~HasPackageNamed(Member(G0, k), target))
           => Member(G1, k).package = Member(G0, k).package
    /\ (IsSome(G0.root_manifest.package) /\ ~HasPackageNamed(G0.root_manifest, target))
         => G1.root_manifest.package = G0.root_manifest.package

C4_Witness ==
  /\ UpdatedOk
  /\ \E k \in MemberKeys(G1) :
       /\ HasPackageNamed(Member(G0, k), target)
       /\ Unwrap(Member(G0, k).package).version # newVersion
       /\ Unwrap(Member(G1, k).package).version = newVersion
  /\ \E k \in MemberKeys(G1) :
       IsSome(Member(G0, k).package) /\ ~HasPackageNamed(Member(G0, k), target)
  /\ IsSome(G0.root_manifest.package) /\ ~HasPackageNamed(G0.root_manifest, target)

\* ---------------------------------------------------------------- C5

\* The membership-level dependencies of a root manifest.
WsDeps(m) == Unwrap(m.workspace).dependencies

\* C5: after update_version on a root with a membership declaration, each
\* membership-level entry keyed by the target is updated by variant (Simple:
\* the string becomes the new version; Detailed: the version becomes Some(new)
\* whatever it was; Inherited: unchanged) and every other entry is unchanged.
C5_WorkspaceDependencies ==
  (UpdatedOk /\ IsSome(G0.root_manifest.workspace)) =>
    /\ IsSome(G1.root_manifest.workspace)
    /\ Unwrap(G1.root_manifest.workspace).members = Unwrap(G0.root_manifest.workspace).members
    /\ DOMAIN WsDeps(G1.root_manifest) = DOMAIN WsDeps(G0.root_manifest)
    /\ \A name \in DOMAIN WsDeps(G0.root_manifest) :
         LET old == WsDeps(G0.root_manifest)[name]
             new == WsDeps(G1.root_manifest)[name]
         IN IF name # target \/ old.kind = "Inherited" THEN new = old
            ELSE new.kind = old.kind /\ new.version = Some(newVersion)

C5_Witness ==
  /\ UpdatedOk
  /\ IsSome(G0.root_manifest.workspace)
  /\ \E name \in DOMAIN WsDeps(G0.root_manifest) :
       /\ name = target
       /\ WsDeps(G0.root_manifest)[name] = Detailed(None)
       /\ WsDeps(G1.root_manifest)[name] = Detailed(Some(newVersion))
  /\ \E name \in DOMAIN WsDeps(G0.root_manifest) : name # target

\* ---------------------------------------------------------------- C6

\* What the root resource said when the last load read it.
RootDoc == ReadBack(pre.files, args.path)

\* C6: a successful load_manifest leaves members absent when the root has no
\* membership declaration and when it declares an empty member list, and the
\* members of a loaded graph are never an empty mapping.
C6_AbsentNotEmpty ==
  LoadedOk =>
    /\ (~IsSome(RootDoc.workspace) => G1.members = None)
    /\ (IsSome(RootDoc.workspace) /\ Unwrap(RootDoc.workspace).members = <<>>)
         => G1.members = None
    /\ IsSome(G1.members) => DOMAIN Unwrap(G1.members) # {}

C6_Witness ==
  /\ LoadedOk
  /\ IsSome(RootDoc.workspace)
  /\ Unwrap(RootDoc.workspace).members = <<>>
  /\ G1.members = None

\* ---------------------------------------------------------------- C7

\* The root resource of the last load was read and parsed.
RootParsed ==
  /\ StorageKey(fsKind, args.path) \in DOMAIN pre.files
  /\ pre.files[StorageKey(fsKind, args.path)].ok

\* The i-th declared member's resource is missing from storage or is no
\* manifest.
MemberFails(ms, i) ==
  LET key == StorageKey(fsKind, MemberId(args.path, ms[i]))
  IN key \notin DOMAIN pre.files \/ ~pre.files[key].ok

\* C7: when the root declares members m1..mn and every member resource exists
\* and parses, the load succeeds, the keys of the loaded members are exactly
\* the identifiers (directory of the root path, mi, file name), each mapped to
\* the parsed content of its resource, and the loader reads the root and the
\* declared members and nothing else: a member's own member list is not
\* expanded.
C7_GraphCompleteness ==
  (Loaded /\ RootParsed /\ IsSome(RootDoc.workspace)
     /\ Unwrap(RootDoc.workspace).members # <<>>
     /\ \A i \in 1..Len(Unwrap(RootDoc.workspace).members) :
          ~MemberFails(Unwrap(RootDoc.workspace).members, i)) =>
    LET ms == Unwrap(RootDoc.workspace).members
    IN /\ result.ok
       /\ IsSome(graph)
       /\ IsSome(G1.members)
       /\ MemberKeys(G1) = {MemberId(args.path, ms[i]) : i \in 1..Len(ms)}
       /\ \A k \in MemberKeys(G1) : Member(G1, k) = ReadBack(pre.files, k)
       /\ reads = <<args.path>> \o [i \in 1..Len(ms) |-> MemberId(args.path, ms[i])]
       /\ G1.root_path = args.path
       /\ G1.root_manifest = RootDoc

C7_Witness ==
  /\ LoadedOk
  /\ Len(args.path) = 2
  /\ Cardinality(MemberKeys(G1)) = 2
  /\ \E k \in MemberKeys(G1) : IsSome(Member(G1, k).workspace)

\* ---------------------------------------------------------------- C8

\* C8: when some declared member cannot be read or parsed, load_manifest fails
\* with the error of the first such member in declared order, returns no
\* graph, reads no member after it, and leaves storage as it was.
C8_FailFast ==
  (Loaded /\ RootParsed /\ IsSome(RootDoc.workspace)) =>
    LET ms == Unwrap(RootDoc.workspace).members
        failing == {i \in 1..Len(ms) : MemberFails(ms, i)}
    IN failing # {} =>
         LET first == CHOOSE i \in failing : \A j \in failing : i <= j
             key == StorageKey(fsKind, MemberId(args.path, ms[first]))
         IN /\ ~result.ok
            /\ result.at = MemberId(args.path, ms[first])
            /\ result.err = IF key \in DOMAIN pre.files THEN "ParseError" ELSE "IoError"
            /\ graph = None
            /\ reads = <<args.path>> \o [i \in 1..first |-> MemberId(args.path, ms[i])]
            /\ files = pre.files
            /\ writes = <<>>

C8_Witness ==
  /\ Loaded
  /\ RootParsed
  /\ IsSome(RootDoc.workspace)
  /\ Len(Unwrap(RootDoc.workspace).members) = 2
  /\ ~MemberFails(Unwrap(RootDoc.workspace).members, 2)
  /\ MemberFails(Unwrap(RootDoc.workspace).members, 1)
  /\ ~result.ok
  /\ Len(reads) = 2

\* ---------------------------------------------------------------- C9

\* Storage fl after the successful writes among the first n of the log.
RECURSIVE Committed(_, _)
Committed(fl, n) ==
  IF n = 0 THEN fl
  ELSE LET before == Committed(fl, n - 1)
           key == StorageKey(fsKind, writes[n].path)
       IN IF writes[n].ok
          THEN [k \in (DOMAIN before) \cup {key} |->
                  IF k = key THEN writes[n].bytes ELSE before[k]]
          ELSE before

\* C9: update_version writes the root first and then members in ascending
\* order of identifier; a failed write is the last write issued, its error is
\* the result, and every write before it stays in storage.
C9_WriteOrderAndAbort ==
  Updated =>
    /\ Len(writes) >= 1
    /\ writes[1].path = G0.root_path
    /\ \A i \in 2..Len(writes) : writes[i].path \in MemberKeys(G0)
    /\ \A i, j \in 2..Len(writes) : i < j => PathLess(writes[i].path, writes[j].path)
    /\ \A i \in 1..Len(writes) : ~writes[i].ok => i = Len(writes)
    /\ result.ok <=> writes[Len(writes)].ok
    /\ ~result.ok => result.at = writes[Len(writes)].path
    /\ files = Committed(pre.files, Len(writes))
    /\ (~writes[1].ok) => (files = pre.files /\ Len(writes) = 1)

C9_Witness ==
  /\ Updated
  /\ Len(writes) = 3
  /\ ~writes[3].ok
  /\ ~result.ok
  /\ files # pre.files

\* ---------------------------------------------------------------- C10

\* C10: a write to an identifier that storage does not hold fails with
\* NotFound and changes nothing, so no operation changes the set of
\* identifiers in storage, and every identifier written is the root path or a
\* key of the members of the graph.
C10_NoResourceCreation ==
  /\ DOMAIN files = DOMAIN pre.files
  /\ \A i \in 1..Len(writes) :
       /\ StorageKey(fsKind, writes[i].path) \notin DOMAIN pre.files => ~writes[i].ok
       /\ writes[i].path = G0.root_path \/ writes[i].path \in MemberKeys(G0)

====
